---- MODULE Spec2Model ----
(***************************************************************************)
(* Simple_LMS (code/simplelms/core): the sliding-window request throttle   *)
(* (throttling.py) and the JWT issuance / verification of API v2           *)
(* (apiv2.py), as state machines.                                          *)
(*                                                                         *)
(* Time is counted in whole seconds.  Python's None is the string "None".  *)
(***************************************************************************)
EXTENDS Integers, Sequences, FiniteSets, TLC

\* ------------------------------------------------------------------------
\* Bounds of the model
\* ------------------------------------------------------------------------
\* requests and clock steps of a run of sequential requests
MaxRequests == 12
MaxTicks == 2
\* requests and clock steps of a run of concurrent requests
MaxRaceRequests == 11
MaxRaceTicks == 1
\* requests and clock steps of a run of sequential requests of several clients
MaxClientRequests == 12
MaxClientTicks == 1
\* clock steps and changes of the key files of a run of API calls
MaxTokenTicks == 2
MaxConfigChanges == 1
\* rows of CourseMember and of Comment of a run of calls of the endpoints
MaxMembers == 3
MaxComments == 1

\* ------------------------------------------------------------------------
\* throttling.py: SimpleRateThrottle
\* ------------------------------------------------------------------------
rate == 10
duration == 60

None == "None"

\* request.META["REMOTE_ADDR"]: an address, or None when the key is absent
Addrs == {"10.0.0.1"}
RemoteAddrs == Addrs \cup {None}
\* the identifiers the cache is keyed by
Idents == Addrs \cup {"unknown"}

\* request threads of the server
Workers == {"w1", "w2"}

\* the steps by which the wall clock is seen to advance
TickSteps == {1, duration - 1, duration}
RaceTickSteps == {1, duration}
ClientTickSteps == {duration}

VARIABLES
    now,              \* the wall clock, time.time()
    ticks,            \* how many times the clock has advanced
    argvTest,         \* 'test' in sys.argv
    settingsTesting,  \* getattr(settings, 'TESTING', False)
    cache,            \* SimpleRateThrottle.cache: identifier -> list of timestamps
    pc,               \* per request thread: where it is in allow_request
    ip,               \* per request thread: local ip
    tnow,             \* per request thread: local now
    history,          \* per request thread: local history
    remoteAddr,       \* per request thread: request.META["REMOTE_ADDR"], or None
    calls,            \* completed calls of allow_request, in order of return
    privFile,         \* BASE_DIR/jwt-signing.pem: "absent" or "ok"
    pubFile,          \* BASE_DIR/jwt-signing.pub: "absent" or "ok"
    cfgChanges,       \* how many times the key files have been changed
    users,            \* the primary keys of the rows of User
    tokens,           \* the token pair the client holds: the last one issued
    resp,             \* the outcome of the API call just made, if the last step was one
    members,          \* the rows of CourseMember, in order of creation
    comments,         \* the rows of Comment, in order of creation
    epc,              \* per request thread: where it is in enroll_course
    request,          \* per request thread: the Authorization header of its request
    user,             \* per request thread: local user of enroll_course
    course_obj,       \* per request thread: local course_obj of enroll_course
    out               \* the response of the endpoint that answered in the last step

throttleVars == <<argvTest, settingsTesting, cache, pc, ip, tnow, history, remoteAddr, calls>>

authVars == <<privFile, pubFile, cfgChanges, users, tokens, resp>>

enrollVars == <<members, comments, epc, request, user, course_obj, out>>

apiVars == <<authVars, enrollVars>>

vars == <<now, ticks, argvTest, settingsTesting, cache, pc, ip, tnow, history, remoteAddr, calls,
          privFile, pubFile, cfgChanges, users, tokens, resp,
          members, comments, epc, request, user, course_obj, out>>

TestModeArgvOnly == argvTest

\* line 12: 'test' in sys.argv or getattr(settings, 'TESTING', False)
TestMode == argvTest \/ settingsTesting

GetIpShared(addr) == "unknown"

\* line 15: request.META.get("REMOTE_ADDR", "unknown")
GetIp(addr) == IF addr = None THEN "unknown" ELSE addr

PruneInclusive(h, t) == SelectSeq(h, LAMBDA req : req >= t - duration)

\* line 18: [req for req in history if req > now - self.duration]
Prune(h, t) == SelectSeq(h, LAMBDA req : req > t - duration)

InFlight == {w \in Workers : pc[w] # "idle"}

\* the requests made so far
Requests == Len(calls) + Cardinality(InFlight)

\* allow_request returns: the call is recorded and the thread's locals are gone
Return(w, at, ok) ==
    /\ calls' = Append(calls, [addr |-> remoteAddr[w], ip |-> ip[w], at |-> at, ok |-> ok])
    /\ pc' = [pc EXCEPT ![w] = "idle"]
    /\ ip' = [ip EXCEPT ![w] = "unknown"]
    /\ remoteAddr' = [remoteAddr EXCEPT ![w] = None]
    /\ tnow' = [tnow EXCEPT ![w] = 0]
    /\ history' = [history EXCEPT ![w] = <<>>]

\* ------------------------------------------------------------------------
\* apiv2.py: keys, tokens, PyJWT
\* ------------------------------------------------------------------------
\* a key file is "ok" when it exists and its key is read, "absent" otherwise
FileStates == {"absent", "ok"}

\* the keys: the pair the two key files hold, settings.SECRET_KEY, and a key of
\* somebody else's
RsaPrivate == "rsa-private"
RsaPublic == "rsa-public"
SecretKey == "SECRET_KEY"
ForeignKey == "foreign-key"

UserIds == {1, 2}
\* payload.get("user_id") of a payload without the claim (None), which is no
\* primary key and is falsy like it
NoUserId == 0

\* timedelta(days=1), timedelta(days=7), in seconds
AccessLifetime == 86400
RefreshLifetime == 604800

\* get_rsa_keys, lines 20-33: each of the two keys is the content of its file,
\* or None when the file is not there (or cannot be read: the error is caught)
get_rsa_keys ==
    [priv |-> IF privFile = "ok" THEN RsaPrivate ELSE None,
     pub  |-> IF pubFile = "ok" THEN RsaPublic ELSE None]

\* a token no key of this server signed, and the token that is not a JWT at all
NoToken ==
    [alg |-> "-", signer |-> None, user_id |-> NoUserId, exp |-> 0, type |-> None,
     priv |-> "-", pub |-> "-"]

\* jwt.encode(payload, key, algorithm=algo), lines 59-64: the token as a string.
\* priv and pub are no part of the token: they remember the key files at issuance.
Encode(user_id, exp, type, key, algo) ==
    [alg |-> algo, signer |-> key, user_id |-> user_id, exp |-> exp, type |-> type,
     priv |-> privFile, pub |-> pubFile]

\* create_token_pair, lines 35-66
create_token_pair(user_id) ==
    LET priv_key == get_rsa_keys.priv
        key  == IF priv_key # None THEN priv_key ELSE SecretKey
        algo == IF priv_key # None THEN "RS256" ELSE "HS256"
    IN  [access  |-> Encode(user_id, now + AccessLifetime, "access", key, algo),
         refresh |-> Encode(user_id, now + RefreshLifetime, "refresh", key, algo)]

\* the signature made with key `signer` verifies under `key`
Verifies(signer, key) ==
    \/ signer = RsaPrivate /\ key = RsaPublic
    \/ signer = SecretKey /\ key = SecretKey

DecodeIgnoringExp(token, key, algo) ==
    IF token.alg = "-" THEN [exc |-> "DecodeError", payload |-> NoToken]
    ELSE IF token.alg # algo THEN [exc |-> "InvalidAlgorithmError", payload |-> NoToken]
    ELSE IF ~Verifies(token.signer, key) THEN [exc |-> "DecodeError", payload |-> NoToken]
    ELSE [exc |-> None, payload |-> token]

\* jwt.decode(token, key, algorithms=[algo]) of lines 84 and 197, as PyJWT does
\* it: a string that is no JWT raises DecodeError; a header alg outside
\* `algorithms` raises InvalidAlgorithmError (no DecodeError); a signature that
\* does not verify raises InvalidSignatureError (a DecodeError); exp <= now
\* raises ExpiredSignatureError; otherwise the payload
Decode(token, key, algo) ==
    IF token.alg = "-" THEN [exc |-> "DecodeError", payload |-> NoToken]
    ELSE IF token.alg # algo THEN [exc |-> "InvalidAlgorithmError", payload |-> NoToken]
    ELSE IF ~Verifies(token.signer, key) THEN [exc |-> "DecodeError", payload |-> NoToken]
    ELSE IF token.exp <= now THEN [exc |-> "ExpiredSignatureError", payload |-> NoToken]
    ELSE [exc |-> None, payload |-> token]

CandidatesWithoutFallback ==
    IF get_rsa_keys.pub # None THEN <<[key |-> get_rsa_keys.pub, algo |-> "RS256"]>>
    ELSE <<[key |-> SecretKey, algo |-> "HS256"]>>

\* lines 71-79 and 189-193: the candidates, the RSA public key first if there is one
Candidates ==
    (IF get_rsa_keys.pub # None THEN <<[key |-> get_rsa_keys.pub, algo |-> "RS256"]>> ELSE <<>>)
        \o <<[key |-> SecretKey, algo |-> "HS256"]>>

\* lines 92 and 104: User.objects.get(pk=user_id) raises User.DoesNotExist
UserLookup(user_id) ==
    IF user_id \in users THEN [exc |-> None, user |-> user_id]
    ELSE [exc |-> "DoesNotExist", user |-> NoUserId]

CaughtNarrowly(exc) == exc \in {"ExpiredSignatureError", "DecodeError", "DoesNotExist"}

\* lines 98-107: the except clauses of authenticate; the last one, except
\* Exception, catches what the first three do not
Caught(exc) ==
    \/ exc = "ExpiredSignatureError"
    \/ exc = "DecodeError"
    \/ exc = "DoesNotExist"
    \/ TRUE

TypeIsAccessUnchecked(payload) == TRUE

\* line 87: payload.get("type") != "access", negated
TypeIsAccess(payload) == payload.type = "access"

\* lines 83-107: what one candidate does with the token: "return" a user,
\* "continue" with the next candidate, or "raise" out of authenticate
Attempt(token, opt) ==
    LET d == Decode(token, opt.key, opt.algo)
    IN  IF d.exc # None
          THEN [do |-> IF Caught(d.exc) THEN "continue" ELSE "raise", user |-> NoUserId]
        ELSE IF ~TypeIsAccess(d.payload)
          THEN [do |-> "continue", user |-> NoUserId]
        ELSE LET u == UserLookup(d.payload.user_id)
             IN  IF u.exc # None
                   THEN [do |-> IF Caught(u.exc) THEN "continue" ELSE "raise",
                         user |-> NoUserId]
                   ELSE [do |-> "return", user |-> u.user]

\* lines 82-111: the loop over the candidates from the i-th on; user is the user
\* returned (NoUserId for None), tried the candidates tried
RECURSIVE AuthLoop(_, _)
AuthLoop(token, i) ==
    IF i > Len(Candidates)
      THEN [raised |-> FALSE, user |-> NoUserId, tried |-> i - 1]
      ELSE LET a == Attempt(token, Candidates[i])
           IN  CASE a.do = "return" -> [raised |-> FALSE, user |-> a.user, tried |-> i]
                 [] a.do = "raise"  -> [raised |-> TRUE, user |-> NoUserId, tried |-> i]
                 [] OTHER           -> AuthLoop(token, i + 1)

\* CustomJwtAuth.authenticate, lines 69-111
authenticate(token) == AuthLoop(token, 1)

\* lines 195-201: the loop of mobile_token_refresh from the i-th candidate on:
\* the user_id of the first candidate that decodes a refresh token
RECURSIVE RefreshLoop(_, _)
RefreshLoop(token, i) ==
    IF i > Len(Candidates)
      THEN NoUserId
      ELSE LET d == Decode(token, Candidates[i].key, Candidates[i].algo)
           IN  IF d.exc = None /\ d.payload.type = "refresh"
                 THEN d.payload.user_id
                 ELSE RefreshLoop(token, i + 1)

\* the steps by which the clock advances while tokens age
TokenTickSteps == {1, AccessLifetime - 1, RefreshLifetime - 1}

\* tokens this server never issued: no JWT at all, signed with another key,
\* signed with SECRET_KEY by another holder of it with claims of its own
FarFuture == 4 * RefreshLifetime
ForeignTokens ==
    {NoToken}
    \cup {[alg |-> a, signer |-> ForeignKey, user_id |-> 1, exp |-> FarFuture,
           type |-> "access", priv |-> "-", pub |-> "-"] : a \in {"RS256", "HS256"}}
    \cup {[alg |-> "HS256", signer |-> SecretKey, user_id |-> NoUserId, exp |-> FarFuture,
           type |-> "access", priv |-> "-", pub |-> "-"],
          [alg |-> "HS256", signer |-> SecretKey, user_id |-> 1, exp |-> FarFuture,
           type |-> None, priv |-> "-", pub |-> "-"]}

\* no API call was the last step
NoResp ==
    [op |-> "-", token |-> NoToken, raised |-> FALSE, user |-> NoUserId, tried |-> 0,
     status |-> 0, access |-> NoToken, refresh |-> NoToken]

\* the rows of Course and of CourseContent, as primary keys, and the ids a
\* request can name (2 names no row); content 1 belongs to course 1
Courses == {1}
CourseIds == {1, 2}
Contents == {1}
ContentIds == {1, 2}
CourseOfContent(k) == 1

\* a request without Authorization header
NoHeader == [present |-> FALSE, token |-> NoToken]

\* no endpoint answered in the last step
NoOut ==
    [op |-> "-", present |-> FALSE, token |-> NoToken, user |-> NoUserId,
     id |-> 0, status |-> 0]

\* the endpoints before their first call
EnrollAtStart ==
    /\ members = <<>>
    /\ comments = <<>>
    /\ epc = [w \in Workers |-> "idle"]
    /\ request = [w \in Workers |-> NoHeader]
    /\ user = [w \in Workers |-> NoUserId]
    /\ course_obj = [w \in Workers |-> 0]
    /\ out = NoOut

\* the API before its first call; the key files are as the deployment has them
AuthAtStart ==
    /\ cfgChanges = 0
    /\ users = UserIds
    /\ tokens = {}
    /\ resp = NoResp

\* the throttle before its first request
ThrottleAtStart ==
    /\ cache = [c \in Idents |-> <<>>]
    /\ pc = [w \in Workers |-> "idle"]
    /\ ip = [w \in Workers |-> "unknown"]
    /\ tnow = [w \in Workers |-> 0]
    /\ history = [w \in Workers |-> <<>>]
    /\ remoteAddr = [w \in Workers |-> None]
    /\ calls = <<>>

InitThrottle ==
    /\ now = 0
    /\ ticks = 0
    /\ argvTest \in BOOLEAN
    /\ settingsTesting \in BOOLEAN
    /\ ThrottleAtStart
    /\ privFile = "absent"
    /\ pubFile = "absent"
    /\ AuthAtStart
    /\ EnrollAtStart

\* the clock advances
Tick(d) ==
    /\ now' = now + d
    /\ ticks' = ticks + 1
    /\ UNCHANGED throttleVars

\* lines 11-16: a request enters allow_request; in test mode it returns True at
\* once, otherwise it takes its identifier and reads the clock
Enter(w, addr) ==
    /\ pc[w] = "idle"
    /\ IF TestMode
         THEN /\ calls' = Append(calls, [addr |-> addr, ip |-> GetIp(addr),
                                          at |-> now, ok |-> TRUE])
              /\ UNCHANGED <<pc, ip, tnow, remoteAddr>>
         ELSE /\ pc' = [pc EXCEPT ![w] = "get"]
              /\ remoteAddr' = [remoteAddr EXCEPT ![w] = addr]
              /\ ip' = [ip EXCEPT ![w] = GetIp(addr)]
              /\ tnow' = [tnow EXCEPT ![w] = now]
              /\ calls' = calls
    /\ UNCHANGED <<now, ticks, argvTest, settingsTesting, cache, history>>

OverBudgetOffByOne(h) == Len(h) > rate

\* line 20: the budget test
OverBudget(h) == Len(h) >= rate

\* lines 17-21: history = self.cache.get(ip, []), pruned into a new list (the
\* pruning and the test read only the thread's locals);
\* if len(history) >= self.rate: return False
GetHistory(w) ==
    /\ pc[w] = "get"
    /\ LET h == Prune(cache[ip[w]], tnow[w])
       IN  IF OverBudget(h)
             THEN Return(w, tnow[w], FALSE)
             ELSE /\ history' = [history EXCEPT ![w] = h]
                  /\ pc' = [pc EXCEPT ![w] = "store"]
                  /\ UNCHANGED <<calls, ip, tnow, remoteAddr>>
    /\ UNCHANGED <<now, ticks, argvTest, settingsTesting, cache>>

\* lines 23-25: history.append(now); self.cache[ip] = history; return True
Store(w) ==
    /\ pc[w] = "store"
    /\ cache' = [cache EXCEPT ![ip[w]] = Append(history[w], tnow[w])]
    /\ Return(w, tnow[w], TRUE)
    /\ UNCHANGED <<now, ticks, argvTest, settingsTesting>>

\* one step of allow_request in thread w
AllowRequestStep(w) ==
    \/ GetHistory(w)
    \/ Store(w)

\* requests handled in parallel by the request threads
NextThrottle ==
    \/ \E d \in RaceTickSteps : ticks < MaxRaceTicks /\ Tick(d) /\ UNCHANGED apiVars
    \/ \E w \in Workers, addr \in Addrs :
          Requests < MaxRaceRequests /\ Enter(w, addr) /\ UNCHANGED apiVars
    \/ \E w \in Workers : AllowRequestStep(w) /\ UNCHANGED apiVars

SpecThrottle == InitThrottle /\ [][NextThrottle]_vars

\* requests handled one after the other, by one thread
NextSequential ==
    \/ \E d \in TickSteps : ticks < MaxTicks /\ Tick(d) /\ UNCHANGED apiVars
    \/ \E addr \in Addrs : Requests < MaxRequests /\ Enter("w1", addr) /\ UNCHANGED apiVars
    \/ AllowRequestStep("w1") /\ UNCHANGED apiVars

SpecSequential == InitThrottle /\ [][NextSequential]_vars

\* a process that throttles: neither 'test' in sys.argv nor settings.TESTING
InitClients == InitThrottle /\ ~argvTest /\ ~settingsTesting

\* sequential requests of several clients, some of them without REMOTE_ADDR;
\* a call reads the clock once, on entry, so the clock is seen to advance
\* between calls
NextClients ==
    \/ \E d \in ClientTickSteps :
          /\ ticks < MaxClientTicks /\ InFlight = {}
          /\ Tick(d) /\ UNCHANGED apiVars
    \/ \E addr \in RemoteAddrs :
          Requests < MaxClientRequests /\ Enter("w1", addr) /\ UNCHANGED apiVars
    \/ AllowRequestStep("w1") /\ UNCHANGED apiVars

SpecClients == InitClients /\ [][NextClients]_vars

\* ------------------------------------------------------------------------
\* apiv2.py: the calls of the API
\* ------------------------------------------------------------------------

\* the response that carries a new token pair
Issued(op, token, pair) ==
    [op |-> op, token |-> token, raised |-> FALSE, user |-> NoUserId, tried |-> 0,
     status |-> 200, access |-> pair.access, refresh |-> pair.refresh]

\* raise HttpError(401, ...)
Unauthorized(op, token) ==
    [op |-> op, token |-> token, raised |-> FALSE, user |-> NoUserId, tried |-> 0,
     status |-> 401, access |-> NoToken, refresh |-> NoToken]

\* mobile_sign_in, lines 176-183: django's authenticate(username, password)
\* yields the user when the user exists and the password is right
mobile_sign_in(u, passwordOk) ==
    /\ IF u \in users /\ passwordOk
         THEN LET pair == create_token_pair(u)
              IN  /\ tokens' = {pair.access, pair.refresh}
                  /\ resp' = Issued("sign_in", NoToken, pair)
         ELSE /\ tokens' = tokens
              /\ resp' = Unauthorized("sign_in", NoToken)
    /\ UNCHANGED <<now, ticks, throttleVars, privFile, pubFile, cfgChanges, users>>

\* a request with Authorization: Bearer <token> reaches CustomJwtAuth.authenticate
Authenticate(token) ==
    /\ LET r == authenticate(token)
       IN  resp' = [op |-> "authenticate", token |-> token, raised |-> r.raised,
                    user |-> r.user, tried |-> r.tried,
                    status |-> IF r.raised THEN 500 ELSE IF r.user = NoUserId THEN 401 ELSE 200,
                    access |-> NoToken, refresh |-> NoToken]
    /\ UNCHANGED <<now, ticks, throttleVars, privFile, pubFile, cfgChanges, users, tokens>>

\* mobile_token_refresh, lines 185-207
mobile_token_refresh(token) ==
    /\ LET user_id == RefreshLoop(token, 1)
       IN  IF user_id = NoUserId
             THEN /\ tokens' = tokens
                  /\ resp' = Unauthorized("refresh", token)
             ELSE LET pair == create_token_pair(user_id)
                  IN  /\ tokens' = {pair.access, pair.refresh}
                      /\ resp' = Issued("refresh", token, pair)
    /\ UNCHANGED <<now, ticks, throttleVars, privFile, pubFile, cfgChanges, users>>

\* the deployment changes its key files
SetKeyFiles(p, q) ==
    /\ cfgChanges < MaxConfigChanges
    /\ <<p, q>> # <<privFile, pubFile>>
    /\ privFile' = p
    /\ pubFile' = q
    /\ cfgChanges' = cfgChanges + 1
    /\ resp' = NoResp
    /\ UNCHANGED <<now, ticks, throttleVars, users, tokens>>

\* a row of User is deleted
DeleteUser(u) ==
    /\ u \in users
    /\ users' = users \ {u}
    /\ resp' = NoResp
    /\ UNCHANGED <<now, ticks, throttleVars, privFile, pubFile, cfgChanges, tokens>>

\* time passes between two API calls
TokensAge(d) ==
    /\ ticks < MaxTokenTicks
    /\ Tick(d)
    /\ resp' = NoResp
    /\ UNCHANGED <<privFile, pubFile, cfgChanges, users, tokens>>

\* the tokens a client may present
Presentable == tokens \cup ForeignTokens

Init ==
    /\ now = 0
    /\ ticks = 0
    /\ argvTest = FALSE
    /\ settingsTesting = FALSE
    /\ ThrottleAtStart
    /\ privFile \in FileStates
    /\ pubFile \in FileStates
    /\ AuthAtStart
    /\ EnrollAtStart

Next ==
    \/ \E u \in UserIds, passwordOk \in BOOLEAN :
          mobile_sign_in(u, passwordOk) /\ UNCHANGED enrollVars
    \/ \E token \in Presentable : Authenticate(token) /\ UNCHANGED enrollVars
    \/ \E token \in Presentable : mobile_token_refresh(token) /\ UNCHANGED enrollVars
    \/ \E p \in FileStates, q \in FileStates : SetKeyFiles(p, q) /\ UNCHANGED enrollVars
    \/ \E u \in UserIds : DeleteUser(u) /\ UNCHANGED enrollVars
    \/ \E d \in TokenTickSteps : TokensAge(d) /\ UNCHANGED enrollVars

Spec == Init /\ [][Next]_vars

\* ------------------------------------------------------------------------
\* apiv2.py: the endpoints of courses and comments
\* ------------------------------------------------------------------------

\* the Authorization header of a request: absent, or Bearer <token>
Headers == {NoHeader} \cup {[present |-> TRUE, token |-> t] : t \in Presentable}

\* request.auth of an endpoint declared with auth=apiAuth: the user that
\* CustomJwtAuth.authenticate returned for the bearer token, None without one
RequestAuth(h) ==
    IF h.present THEN authenticate(h.token)
                 ELSE [raised |-> FALSE, user |-> NoUserId, tried |-> 0]

NotUserNever(u) == FALSE

\* lines 221, 238, 254: if not user
NotUser(u) == u = NoUserId

\* the response of endpoint op to a request with header h
Response(op, h, u, id, status) ==
    [op |-> op, present |-> h.present, token |-> h.token, user |-> u,
     id |-> id, status |-> status]

\* CourseMember.objects.filter(user_id=u, course_id=c): the ids of the rows
MemberIds(u, c) ==
    {i \in 1..Len(members) : members[i].user_id = u /\ members[i].course_id = c}

\* a handler that answers without touching a table
Answer(w, r) ==
    /\ out' = r
    /\ resp' = NoResp
    /\ UNCHANGED <<members, comments, epc, request, user, course_obj>>

\* my_courses, lines 217-233
my_courses(w, h) ==
    /\ epc[w] = "idle"
    /\ LET a == RequestAuth(h)
       IN  IF a.raised THEN Answer(w, Response("my_courses", h, NoUserId, 0, 500))
           ELSE IF NotUser(a.user)
                  THEN Answer(w, Response("my_courses", h, a.user, 0, 401))
                  ELSE Answer(w, Response("my_courses", h, a.user, 0, 200))
    /\ UNCHANGED <<now, ticks, throttleVars, privFile, pubFile, cfgChanges, users, tokens>>

\* enroll_course, lines 235-246: the checks before the row is created
EnrollCheck(w, h, id) ==
    /\ epc[w] = "idle"
    /\ LET a == RequestAuth(h)
       IN  IF a.raised THEN Answer(w, Response("enroll_course", h, NoUserId, id, 500))
           ELSE IF NotUser(a.user)
                  THEN Answer(w, Response("enroll_course", h, a.user, id, 401))
           ELSE IF id \notin Courses
                  THEN Answer(w, Response("enroll_course", h, a.user, id, 404))
           ELSE IF MemberIds(a.user, id) # {}
                  THEN Answer(w, Response("enroll_course", h, a.user, id, 400))
           ELSE /\ epc' = [epc EXCEPT ![w] = "create"]
                /\ request' = [request EXCEPT ![w] = h]
                /\ user' = [user EXCEPT ![w] = a.user]
                /\ course_obj' = [course_obj EXCEPT ![w] = id]
                /\ out' = NoOut
                /\ resp' = NoResp
                /\ UNCHANGED <<members, comments>>
    /\ UNCHANGED <<now, ticks, throttleVars, privFile, pubFile, cfgChanges, users, tokens>>

\* enroll_course, lines 248-249: CourseMember.objects.create(...) and the
\* answer.  The table is defined in core/models.py; when a row of the pair is
\* there already, the insert either adds a second row or, if the table has a
\* uniqueness constraint on the pair, raises IntegrityError, which the handler
\* does not catch.
EnrollCreate(w) ==
    /\ epc[w] = "create"
    /\ \/ /\ members' = Append(members, [user_id |-> user[w], course_id |-> course_obj[w]])
          /\ out' = Response("enroll_course", request[w], user[w], course_obj[w], 200)
       \/ /\ MemberIds(user[w], course_obj[w]) # {}
          /\ members' = members
          /\ out' = Response("enroll_course", request[w], user[w], course_obj[w], 500)
    /\ epc' = [epc EXCEPT ![w] = "idle"]
    /\ request' = [request EXCEPT ![w] = NoHeader]
    /\ user' = [user EXCEPT ![w] = NoUserId]
    /\ course_obj' = [course_obj EXCEPT ![w] = 0]
    /\ resp' = NoResp
    /\ UNCHANGED <<now, ticks, throttleVars, privFile, pubFile, cfgChanges, users, tokens,
                   comments>>

\* post_comment, lines 251-270
post_comment(w, h, content_id) ==
    /\ epc[w] = "idle"
    /\ LET a == RequestAuth(h)
       IN  IF a.raised THEN Answer(w, Response("post_comment", h, NoUserId, content_id, 500))
           ELSE IF NotUser(a.user)
                  THEN Answer(w, Response("post_comment", h, a.user, content_id, 401))
           ELSE IF content_id \notin Contents
                  THEN Answer(w, Response("post_comment", h, a.user, content_id, 404))
           ELSE LET member_qs == MemberIds(a.user, CourseOfContent(content_id))
                IN  IF member_qs = {}
                      THEN Answer(w, Response("post_comment", h, a.user, content_id, 400))
                      ELSE /\ comments' = Append(comments,
                                  [member_id |-> CHOOSE i \in member_qs :
                                                     \A j \in member_qs : i <= j,
                                   content_id |-> content_id])
                           /\ out' = Response("post_comment", h, a.user, content_id, 200)
                           /\ resp' = NoResp
                           /\ UNCHANGED <<members, epc, request, user, course_obj>>
    /\ UNCHANGED <<now, ticks, throttleVars, privFile, pubFile, cfgChanges, users, tokens>>

\* list_courses, lines 287-294: declared without auth
list_courses(w, h) ==
    /\ epc[w] = "idle"
    /\ Answer(w, Response("list_courses", h, NoUserId, 0, 200))
    /\ UNCHANGED <<now, ticks, throttleVars, privFile, pubFile, cfgChanges, users, tokens>>

\* the rows in flight: the calls of enroll_course that are about to insert
Enrolling == {w \in Workers : epc[w] = "create"}

\* clients sign in and call the endpoints, handled in parallel by the request
\* threads
NextEnroll ==
    \/ \E u \in UserIds, passwordOk \in BOOLEAN :
          /\ mobile_sign_in(u, passwordOk)
          /\ out' = NoOut
          /\ UNCHANGED <<members, comments, epc, request, user, course_obj>>
    \/ \E w \in Workers, h \in Headers : my_courses(w, h)
    \/ \E w \in Workers, h \in Headers, id \in CourseIds :
          Len(members) + Cardinality(Enrolling) < MaxMembers /\ EnrollCheck(w, h, id)
    \/ \E w \in Workers : EnrollCreate(w)
    \/ \E w \in Workers, h \in Headers, content_id \in ContentIds :
          Len(comments) < MaxComments /\ post_comment(w, h, content_id)
    \/ \E w \in Workers, h \in Headers : list_courses(w, h)

SpecEnroll == Init /\ [][NextEnroll]_vars

\* ------------------------------------------------------------------------
\* Properties of the tokens
\* ------------------------------------------------------------------------

\* the token presented to the call just made
Tok == resp.token

\* create_token_pair made the token
IssuedByServer(t) == t.priv # "-"

\* the key files are as they were when the token was issued
SameKeyFiles(t) == t.priv = privFile /\ t.pub = pubFile

\* some candidate key of the present configuration verifies the token's signature
Verifiable(t) ==
    \E i \in 1..Len(Candidates) :
        Candidates[i].algo = t.alg /\ Verifies(t.signer, Candidates[i].key)

\* the call just made was authenticate / mobile_token_refresh / one that issued a pair
Authenticated == resp.op = "authenticate"
Refreshed == resp.op = "refresh"
IssuedAPair == resp.op \in {"sign_in", "refresh"} /\ resp.status = 200

\* mobile_token_refresh answered 401 and issued nothing
RefreshRejected == resp.status = 401 /\ resp.access = NoToken /\ resp.refresh = NoToken

\* C3 as claimed: for every user u in the user store, with the key files
\* unchanged, authenticate given the unexpired access token of
\* create_token_pair(u) returns the user whose primary key is u.
C3_RoundTrip ==
    (/\ Authenticated
     /\ IssuedByServer(Tok) /\ Tok.type = "access"
     /\ SameKeyFiles(Tok)
     /\ Tok.user_id \in users
     /\ now < Tok.exp) => resp.user = Tok.user_id

\* C4: in every key configuration, authenticate rejects the refresh token of
\* create_token_pair (it returns None after trying every candidate key), and
\* mobile_token_refresh rejects its access token (401, no new pair).
C4_TypeIsolation ==
    /\ (Authenticated /\ IssuedByServer(Tok) /\ Tok.type = "refresh")
          => (resp.user = NoUserId /\ ~resp.raised /\ resp.tried = Len(Candidates))
    /\ (Refreshed /\ IssuedByServer(Tok) /\ Tok.type = "access") => RefreshRejected

\* an unexpired access token whose signature a candidate verifies was refused by
\* mobile_token_refresh
C4_Witness ==
    /\ Refreshed /\ IssuedByServer(Tok) /\ Tok.type = "access"
    /\ Verifiable(Tok) /\ now < Tok.exp /\ Tok.user_id \in users
    /\ RefreshRejected

\* C5 as claimed: if either key file is missing, issuance signs with the shared
\* secret and HS256, and in every key configuration a freshly issued access
\* token of an existing user is accepted.
C5_FallbackConsistency ==
    /\ (IssuedAPair /\ (privFile # "ok" \/ pubFile # "ok"))
          => (/\ resp.access.alg = "HS256" /\ resp.access.signer = SecretKey
              /\ resp.refresh.alg = "HS256" /\ resp.refresh.signer = SecretKey)
    /\ (/\ Authenticated
        /\ IssuedByServer(Tok) /\ Tok.type = "access" /\ SameKeyFiles(Tok)
        /\ Tok.user_id \in users /\ now < Tok.exp) => resp.status = 200

\* C6: an access token carries exp = issue time + 1 day and a refresh token
\* exp = issue time + 7 days; a token whose signature a candidate verifies is
\* accepted while its exp is in the future, and every token is rejected, by every
\* candidate, from its exp on: authenticate returns None and mobile_token_refresh
\* issues no pair.
C6_TokenLifetime ==
    /\ IssuedAPair => (/\ resp.access.exp = now + AccessLifetime
                       /\ resp.refresh.exp = now + RefreshLifetime)
    /\ (/\ Authenticated /\ IssuedByServer(Tok) /\ Tok.type = "access"
        /\ Verifiable(Tok) /\ Tok.user_id \in users /\ now < Tok.exp)
          => resp.user = Tok.user_id
    /\ (Refreshed /\ IssuedByServer(Tok) /\ Tok.type = "refresh"
        /\ Verifiable(Tok) /\ now < Tok.exp)
          => (resp.status = 200 /\ resp.access.user_id = Tok.user_id)
    /\ (Authenticated /\ now >= Tok.exp)
          => (resp.user = NoUserId /\ resp.tried = Len(Candidates))
    /\ (Refreshed /\ now >= Tok.exp) => RefreshRejected

\* an access token that a candidate verifies, of an existing user, was refused at
\* the second of its expiry
C6_Witness ==
    /\ Authenticated /\ IssuedByServer(Tok) /\ Tok.type = "access"
    /\ Verifiable(Tok) /\ Tok.user_id \in users
    /\ now = Tok.exp
    /\ resp.user = NoUserId

\* C7 as claimed: a validly signed, unexpired token whose subject is no longer in
\* the user store is refused for both types: authenticate returns None for the
\* access token, mobile_token_refresh rejects the refresh token and issues no pair.
C7_PrincipalNotFound ==
    /\ (/\ Authenticated /\ Tok.type = "access"
        /\ Verifiable(Tok) /\ now < Tok.exp /\ Tok.user_id \notin users)
          => resp.user = NoUserId
    /\ (/\ Refreshed /\ Tok.type = "refresh"
        /\ Verifiable(Tok) /\ now < Tok.exp /\ Tok.user_id \notin users)
          => RefreshRejected

\* the call just made was given an unexpired token of the type it expects (of an
\* existing user, for authenticate), issued by create_token_pair
ValidForTheCall ==
    /\ IssuedByServer(Tok)
    /\ now < Tok.exp
    /\ \/ Authenticated /\ Tok.type = "access" /\ Tok.user_id \in users
       \/ Refreshed /\ Tok.type = "refresh"

\* the call just made accepted its token
Accepted ==
    \/ Authenticated /\ resp.user = Tok.user_id /\ resp.user # NoUserId
    \/ Refreshed /\ resp.status = 200

\* the algorithm create_token_pair signs with as the key files are now
SigningAlgo == create_token_pair(NoUserId).access.alg

\* C8 as claimed: a token issued under HS256 while no key file was there, and a
\* token issued under RS256 while both were, is still accepted once the key
\* files make the deployment sign with the other algorithm.
C8_Original ==
    (/\ ValidForTheCall
     /\ Tok.alg # SigningAlgo
     /\ \/ Tok.alg = "HS256" /\ Tok.priv = "absent" /\ Tok.pub = "absent"
        \/ Tok.alg = "RS256" /\ Tok.priv = "ok" /\ Tok.pub = "ok") => Accepted

\* C8 (amended): a token issued under HS256 is accepted whatever the key files
\* have become, and a token issued under RS256 is accepted exactly while the
\* public key file is there.
C8_SchemeChange ==
    /\ (ValidForTheCall /\ Tok.alg = "HS256") => Accepted
    /\ (ValidForTheCall /\ Tok.alg = "RS256") => (Accepted <=> pubFile = "ok")

\* a token issued under HS256 with no key files was accepted after both key
\* files were added
C8_Witness ==
    /\ ValidForTheCall /\ Accepted
    /\ Tok.alg = "HS256" /\ Tok.priv = "absent" /\ Tok.pub = "absent"
    /\ privFile = "ok" /\ pubFile = "ok" /\ SigningAlgo = "RS256"

\* C9: authenticate ends with a user or None and never raises; it returns a user
\* only if a candidate key verifies the signature, the token is unexpired, its
\* type is "access" and its subject is in the user store, and then that user.
C9_FailClosed ==
    Authenticated =>
        /\ ~resp.raised
        /\ resp.user \in users \cup {NoUserId}
        /\ resp.user # NoUserId =>
              /\ Verifiable(Tok)
              /\ now < Tok.exp
              /\ Tok.type = "access"
              /\ Tok.user_id \in users
              /\ resp.user = Tok.user_id

\* a token whose alg the RS256 candidate does not allow (an exception only the
\* last except clause catches), unverifiable by the next, ended in None
C9_Witness ==
    /\ Authenticated
    /\ pubFile = "ok" /\ Tok.alg = "HS256" /\ Tok.signer = ForeignKey
    /\ resp.user = NoUserId /\ ~resp.raised /\ resp.tried = 2

\* ------------------------------------------------------------------------
\* Properties of the throttle
\* ------------------------------------------------------------------------

\* the completed calls of client c, in order
CallsOf(c) == SelectSeq(calls, LAMBDA r : r.ip = c)

\* the calls of log L, among the first n, that returned True with a timestamp in
\* the trailing window (t - duration, t]
AdmittedInWindow(L, n, t) ==
    {j \in 1..n : L[j].ok /\ L[j].at > t - duration /\ L[j].at <= t}

\* C1 as claimed (outside test mode, where nothing is throttled): for requests
\* sharing one client identifier, under every interleaving of the steps of
\* allow_request, the calls that returned True with timestamps inside any one
\* trailing window of `duration` seconds are never more than `rate`.
C1_AdmittedWithinRate ==
    ~TestMode =>
        \A c \in Idents :
            LET L == CallsOf(c)
            IN  \A i \in 1..Len(L) :
                    Cardinality(AdmittedInWindow(L, Len(L), L[i].at)) <= rate

\* the first ten calls of L were made within one second
FirstTenWithinASecond(L) ==
    \A k \in 1..Len(L) : k <= rate => L[k].at <= L[1].at + 1

\* the three parts of C2, for sequential calls of one client whose history was
\* empty: (a) the first ten calls made within one second return True, (b) the
\* 11th call, made within the window of the first, returns False, (c) a call made
\* more than `duration` seconds after the first admitted call, with fewer than
\* `rate` admitted timestamps still inside its window, returns True
WindowBehaviour(L) ==
    /\ \A k \in 1..Len(L) : (k <= rate /\ FirstTenWithinASecond(L)) => L[k].ok
    /\ (Len(L) > rate /\ FirstTenWithinASecond(L) /\ L[rate + 1].at < L[1].at + duration)
          => ~L[rate + 1].ok
    /\ \A k \in 2..Len(L) :
          (/\ L[k].at > L[1].at + duration
           /\ Cardinality(AdmittedInWindow(L, k - 1, L[k].at)) < rate) => L[k].ok

\* C2 as claimed: sequential calls of allow_request behave as WindowBehaviour
\* says, whatever the mode of the process.
C2_Original == \A c \in Idents : WindowBehaviour(CallsOf(c))

\* C2 (amended): outside test mode, sequential calls of allow_request for a client
\* whose history was empty behave as WindowBehaviour says: ten calls within a
\* second are admitted, the 11th within the window is denied, and a call made
\* more than 60 seconds after the first admitted one is admitted again.
C2_ThrottleWindow == ~TestMode => \A c \in Idents : WindowBehaviour(CallsOf(c))

\* ten calls admitted within a second, the 11th denied, and a 12th admitted more
\* than 60 seconds after the first
C2_Witness ==
    /\ ~TestMode
    /\ \E c \in Idents :
          LET L == CallsOf(c)
          IN  /\ Len(L) >= rate + 2
              /\ FirstTenWithinASecond(L)
              /\ \A k \in 1..rate : L[k].ok
              /\ ~L[rate + 1].ok
              /\ L[rate + 1].at < L[1].at + duration
              /\ L[rate + 2].at > L[1].at + duration
              /\ L[rate + 2].ok

\* the process is in test mode: 'test' is in sys.argv or settings.TESTING is true
InTestMode == argvTest \/ settingsTesting

\* the call that returns in this step, if one does
Returned == calls'[Len(calls')]

\* C13: for calls made one after the other, a call of allow_request that returns
\* False leaves the whole cache as it was, and a call that returns True outside
\* test mode leaves as the history of its client the previous history without
\* the timestamps at or before now - duration, with `now` appended, and leaves
\* the histories of the other clients as they were.
C13_DeniedCallsLeaveTheCache ==
    [][ (~InTestMode /\ Len(calls') = Len(calls) + 1) =>
            IF Returned.ok
              THEN cache' = [cache EXCEPT ![Returned.ip] =
                               Append(SelectSeq(cache[Returned.ip],
                                                LAMBDA q : q > Returned.at - duration),
                                      Returned.at)]
              ELSE cache' = cache ]_vars

\* a call was denied, and a later admitted call dropped an expired timestamp
\* from the stored history of the client
C13_Witness ==
    /\ ~InTestMode
    /\ \E i, j, k \in 1..Len(calls) :
          /\ i < j /\ j < k
          /\ calls[i].ok /\ ~calls[j].ok /\ calls[k].ok
          /\ calls[i].ip = calls[k].ip /\ calls[j].ip = calls[k].ip
          /\ calls[k].at >= calls[i].at + duration
          /\ \A n \in 1..Len(cache[calls[k].ip]) : cache[calls[k].ip][n] # calls[i].at

\* the timestamps of h are in non-decreasing order
NonDecreasing(h) == \A i, j \in 1..Len(h) : i < j => h[i] <= h[j]

\* C14: under every interleaving of the steps of allow_request, each client's
\* stored list has at most `rate` timestamps and is in non-decreasing order, and
\* a list just written by a call holds no timestamp at or before that call's
\* now - duration.
C14_StoredHistories ==
    [][ \A c \in Idents :
            /\ Len(cache'[c]) <= rate
            /\ NonDecreasing(cache'[c])
            /\ cache'[c] # cache[c] =>
                  \E w \in Workers :
                      /\ pc[w] = "store" /\ pc'[w] = "idle" /\ ip[w] = c
                      /\ \A n \in 1..Len(cache'[c]) : cache'[c][n] > tnow[w] - duration
      ]_vars

\* the client a completed call came from, by the address its request carried
ClientOf(r) == IF r.addr = None THEN "unknown" ELSE r.addr

\* the earlier admitted calls of the client of the last call that lie in the
\* window of the last call
OwnAdmittedInWindow ==
    LET n == Len(calls)
    IN  {j \in 1..(n - 1) : /\ ClientOf(calls[j]) = ClientOf(calls[n])
                            /\ calls[j].ok
                            /\ calls[j].at > calls[n].at - duration}

\* the call that returned last was counted under the identifier of its client,
\* "unknown" for a request without REMOTE_ADDR, and was admitted exactly when
\* fewer than `rate` earlier admitted calls of that same client lay in its
\* window, whatever the other clients did (the log grows by one call at a time,
\* so this holds of every call when it holds in every state)
BudgetsPerClient ==
    calls # <<>> =>
        /\ calls[Len(calls)].ip = ClientOf(calls[Len(calls)])
        /\ ~InTestMode =>
              (calls[Len(calls)].ok <=> Cardinality(OwnAdmittedInWindow) < rate)

\* a step of a call for one client leaves the stored history of every other
\* client as it was
OtherHistoriesKept ==
    \A c \in Idents :
        cache'[c] # cache[c] => (pc["w1"] # "idle" /\ ip["w1"] = c)

\* C15: budgets are per client identifier: a call for client c1 never changes
\* the stored history of another client c2 nor the result of a later call for
\* c2, and the requests without REMOTE_ADDR share the identifier "unknown" and
\* its one budget.
C15_ClientIsolation == []BudgetsPerClient /\ [][OtherHistoriesKept]_vars

\* a client with an address has used up its budget and is denied, and a later
\* request without REMOTE_ADDR, made at the same time, is admitted under
\* "unknown"
C15_Witness ==
    /\ ~InTestMode
    /\ \E i, j \in 1..Len(calls) :
          /\ i < j
          /\ calls[i].addr # None /\ ~calls[i].ok
          /\ calls[j].addr = None /\ calls[j].ok /\ calls[j].ip = "unknown"
          /\ calls[j].at = calls[i].at
          /\ cache[calls[i].ip] # cache["unknown"]

\* C16: in test mode allow_request returns True for every request, however many
\* the client has made, and never reads or writes the cache: no call is denied,
\* no call gets as far as the cache, and every stored history stays empty.
C16_TestModeBypass ==
    InTestMode =>
        /\ \A i \in 1..Len(calls) : calls[i].ok
        /\ \A w \in Workers : pc[w] = "idle"
        /\ \A c \in Idents : cache[c] = <<>>

\* in test mode, by settings.TESTING alone, one client has made more than `rate`
\* requests at the same second and every one of them returned True
C16_Witness ==
    /\ settingsTesting /\ ~argvTest
    /\ Len(calls) > rate
    /\ \A i \in 1..Len(calls) :
          calls[i].ok /\ calls[i].ip = calls[1].ip /\ calls[i].at = calls[1].at
    /\ cache[calls[1].ip] = <<>>

\* ------------------------------------------------------------------------
\* Properties of the endpoints
\* ------------------------------------------------------------------------

\* the rows of CourseMember of user u in course c
RowsOf(u, c) ==
    {i \in 1..Len(members) : members[i] = [user_id |-> u, course_id |-> c]}

\* enroll_course answered, in the last step, an authenticated user who named
\* an existing course
EnrollAnswered ==
    /\ out.op = "enroll_course"
    /\ out.user \in UserIds
    /\ out.id \in Courses

\* C11: after any calls of enroll_course, interleaved ones of one user for one
\* course included, there is at most one row of CourseMember per (user, course),
\* and every call of an authenticated user for an existing course is answered
\* either 400 (the user was enrolled already) or 200 (the row of the user was
\* created by it); either way exactly one row of the pair is there afterwards.
C11_OneMembershipPerPair ==
    /\ \A u \in UserIds, c \in Courses : Cardinality(RowsOf(u, c)) <= 1
    /\ EnrollAnswered =>
          /\ out.status \in {200, 400}
          /\ Cardinality(RowsOf(out.user, out.id)) = 1

\* the request answered in this step carried no Authorization header, or a
\* token for which CustomJwtAuth.authenticate returns no user
Unauthenticated ==
    \/ ~out'.present
    \/ authenticate(out'.token).user = NoUserId

\* C12: a request to enroll_course, post_comment or my_courses without
\* Authorization header, or with a token that authenticate rejects, is answered
\* 401 and creates no CourseMember and no Comment; list_courses answers 200 with
\* or without a token.
C12_ProtectedEndpoints ==
    [][ /\ (out'.op \in {"enroll_course", "post_comment", "my_courses"} /\ Unauthenticated)
            => (out'.status = 401 /\ members' = members /\ comments' = comments)
        /\ out'.op = "list_courses" => out'.status = 200
      ]_vars

\* a user is enrolled, and enroll_course has just answered 401 to the refresh
\* token the server issued to a user
C12_Witness ==
    /\ out.op = "enroll_course" /\ out.status = 401
    /\ out.present /\ out.token \in tokens /\ out.token.type = "refresh"
    /\ out.id \in Courses
    /\ members # <<>>

====
